---- MODULE Spec2Model ----
(***************************************************************************)
(* Fimbul / FimbulAsync: a registry of named computation nodes and the     *)
(* engine that resolves a node's value from its declared dependencies.     *)
(* The synchronous engine (Fimbul) runs a whole get/getMany as one step;   *)
(* the asynchronous engine (FimbulAsync) is modelled with its promise      *)
(* cache, its microtask queue and the settlement of pending node functions.*)
(***************************************************************************)
EXTENDS Integers, Sequences, FiniteSets, TLC

\* ------------------------------------------------------------------------
\* Bounds of the model
\* ------------------------------------------------------------------------
\* Longest dependency list given to define.
MaxDeps == 2
\* Longest key list given to getMany.
MaxIds == 2

\* Node identifiers ("keyof R"). Key names are interchangeable, so new keys
\* are registered in the order of KeyOrder; any key may be requested,
\* redefined or named as a dependency at any time.
KeyOrder == <<"a", "b", "c">>
Keys == {KeyOrder[i] : i \in 1..Len(KeyOrder)}

\* ------------------------------------------------------------------------
\* JavaScript values
\* ------------------------------------------------------------------------
\* A property that was never assigned.
ABSENT == [t |-> "absent"]
\* The value undefined (a property may hold it explicitly).
UNDEF == [t |-> "undefined"]
\* A number.
Num(n) == [t |-> "number", n |-> n]
\* An Error object with its message.
Err(m) == [t |-> "error", msg |-> m]
NoErr == [t |-> "none"]

\* `x !== undefined`: reading an unassigned property yields undefined too.
IsDefined(v) == v # ABSENT /\ v # UNDEF

\* The empty object {}.
EmptyObj == [k \in Keys |-> ABSENT]

\* params values handed to get/getMany.
Params == {UNDEF, Num(1)}

\* Caller-supplied results objects: {} or one key holding a defined value.
Seeds == {EmptyObj} \cup {[EmptyObj EXCEPT ![k] = Num(0)] : k \in Keys}

\* Sequences over S of length at most n.
SeqsUpTo(S, n) == UNION {[1..m -> S] : m \in 0..n}

Range(s) == {s[i] : i \in 1..Len(s)}

\* ------------------------------------------------------------------------
\* Node functions supplied by the user (the fn argument of define)
\* ------------------------------------------------------------------------
\*   "sum"   (params, deps) => declared.reduce((s, k) => num(s) + num(deps[k]), params)
\*           (a node without declared dependencies returns params itself)
\*   "peek"  (params, deps) => how many properties of deps are defined
\*   "throw" () => { throw new Error(...) }
Fns == {"sum", "peek", "throw"}

\* typeof v === "number" ? v : 0
ToNum(v) == IF v.t = "number" THEN v.n ELSE 0

RECURSIVE SumOver(_, _)
SumOver(S, handed) ==
  IF S = {} THEN 0
  ELSE LET d == CHOOSE x \in S : TRUE
       IN ToNum(handed[d]) + SumOver(S \ {d}, handed)

\* The message of the error thrown by the user function of key.
UserError(key) == Err(<<"user", key>>)

\* The value fn returns (or the error it throws) for params and the
\* dependency map it is handed; declared is the set of keys fn destructures.
Apply(fn, key, params, handed, declared) ==
  CASE fn = "sum" -> IF declared = {} THEN params
                     ELSE Num(ToNum(params) + SumOver(declared, handed))
    [] fn = "peek" -> Num(Cardinality({k \in Keys : IsDefined(handed[k])}))
    [] OTHER -> UserError(key)

\* ------------------------------------------------------------------------
\* State
\* ------------------------------------------------------------------------
VARIABLES
  variant,   \* "sync": a Fimbul() instance, "async": a FimbulAsync() instance
  nodes,     \* the registry: key -> stored node, or NoNode
  order,     \* insertion order of the registry Map
  op,        \* the last API call: its arguments and how it ended
  results,   \* the caller's results object as the last call left it
  calls,     \* user-function invocations of the last resolution call, in order
  cache,     \* async: the promise map of the resolution call (key -> promise)
  queue,     \* async: the microtask queue, first in first out
  waiting,   \* async: resolveDependencies calls (owner, captured params) awaiting
             \* their promises, oldest first
  running,   \* async: invoked node functions whose promise is still pending
  clock,     \* async: logical time of the resolution call and of its invocations
  other      \* async: a second resolution call in flight, set aside while the
             \* steps of the current one are taken (NoOther if there is none)

vars == <<variant, nodes, order, op, results, calls, cache, queue, waiting, running, clock,
          other>>
asyncVars == <<cache, queue, waiting, running, clock, other>>

NoNode == [t |-> "none"]
\* define called without a dependencies argument.
NoDeps == <<"no dependencies argument">>

\* Recursion deeper than any acyclic registry allows: the engine of a cyclic
\* registry would overflow the call stack.
MaxDepth == Cardinality(Keys) + 1

AlreadyDefined(key) == Err(<<"already defined", key>>)
NotFound(key) == Err(<<"not found", key>>)
RangeError == Err(<<"Maximum call stack size exceeded">>)

\* nodes.has(key)
has(key) == nodes[key] # NoNode

\* Keys a define call is tried with: every registered key and the next new one.
DefinableKeys ==
  {k \in Keys : has(k)} \cup
  (IF Len(order) < Len(KeyOrder) THEN {KeyOrder[Len(order) + 1]} ELSE {})

\* The dependencies argument of define: absent, or a list of keys.
DepLists == SeqsUpTo(Keys, MaxDeps) \cup {NoDeps}

\* First element of dependencies that is not registered, 0 if none.
FirstMissing(dependencies) ==
  IF \E i \in 1..Len(dependencies) : ~has(dependencies[i])
  THEN CHOOSE i \in 1..Len(dependencies) :
         /\ ~has(dependencies[i])
         /\ \A j \in 1..(i - 1) : has(dependencies[j])
  ELSE 0

\* define with the bug of checking only the first dependency.
defineFirstDepOnly(key, fn, dependencies) ==
  IF has(key)
  THEN [nodes |-> nodes, order |-> order, error |-> AlreadyDefined(key)]
  ELSE IF dependencies # NoDeps /\ dependencies # <<>> /\ ~has(dependencies[1])
  THEN [nodes |-> nodes, order |-> order, error |-> NotFound(dependencies[1])]
  ELSE [nodes |-> [nodes EXCEPT ![key] =
                     [fn |-> fn,
                      deps |-> IF dependencies = NoDeps THEN <<>> ELSE dependencies]],
        order |-> Append(order, key),
        error |-> NoErr]

\* define with the bug of storing the node before the dependencies are checked.
defineSetFirst(key, fn, dependencies) ==
  LET stored == [nodes EXCEPT ![key] =
                   [fn |-> fn,
                    deps |-> IF dependencies = NoDeps THEN <<>> ELSE dependencies]]
  IN IF has(key)
     THEN [nodes |-> nodes, order |-> order, error |-> AlreadyDefined(key)]
     ELSE IF dependencies # NoDeps /\ FirstMissing(dependencies) # 0
     THEN [nodes |-> stored, order |-> Append(order, key),
           error |-> NotFound(dependencies[FirstMissing(dependencies)])]
     ELSE [nodes |-> stored, order |-> Append(order, key), error |-> NoErr]

\* define with the bug of checking the dependencies before the duplicate.
defineDepsFirst(key, fn, dependencies) ==
  IF dependencies # NoDeps /\ FirstMissing(dependencies) # 0
  THEN [nodes |-> nodes, order |-> order,
        error |-> NotFound(dependencies[FirstMissing(dependencies)])]
  ELSE IF has(key)
  THEN [nodes |-> nodes, order |-> order, error |-> AlreadyDefined(key)]
  ELSE [nodes |-> [nodes EXCEPT ![key] =
                     [fn |-> fn,
                      deps |-> IF dependencies = NoDeps THEN <<>> ELSE dependencies]],
        order |-> Append(order, key),
        error |-> NoErr]

\* Fimbul().define: the registry after the call and the error it throws.
define(key, fn, dependencies) ==
  IF has(key)
  THEN [nodes |-> nodes, order |-> order, error |-> AlreadyDefined(key)]
  ELSE IF dependencies # NoDeps /\ FirstMissing(dependencies) # 0
  THEN [nodes |-> nodes, order |-> order,
        error |-> NotFound(dependencies[FirstMissing(dependencies)])]
  ELSE [nodes |-> [nodes EXCEPT ![key] =
                     [fn |-> fn,
                      deps |-> IF dependencies = NoDeps THEN <<>> ELSE dependencies]],
        order |-> Append(order, key),
        error |-> NoErr]

\* ------------------------------------------------------------------------
\* The synchronous engine: a resolution state is
\*   [res: the results object, log: invocations so far, err: thrown error,
\*    ret: the value returned by the last get]
\* ------------------------------------------------------------------------
\* One call of a user function: what it was handed and what it returned or threw.
Invocation(key, params, handed, out) ==
  [key |-> key, params |-> params, handed |-> handed, out |-> out]

RECURSIVE get(_, _, _, _)
RECURSIVE getMany(_, _, _, _)

\* provideDependencies with the bug of calling fn before the dependencies
\* are resolved.
provideDependenciesFnFirst(key, params, st, fuel) ==
  LET n == nodes[key]
      v == Apply(n.fn, key, params, st.res, Range(n.deps))
      st0 == [st EXCEPT !.log = Append(st.log, Invocation(key, params, st.res, v))]
      st1 == getMany(n.deps, params, st0, fuel)
  IN IF v.t = "error" THEN [st0 EXCEPT !.err = v]
     ELSE IF st1.err # NoErr THEN st1
     ELSE [st1 EXCEPT !.ret = v]

\* The function stored by define: fn wrapped by provideDependencies, which
\* first runs getMany over the dependencies and hands fn the object getMany
\* returns, that is the results object itself. A function stored unwrapped
\* (no dependencies argument) is called with (params, results) directly,
\* which is what the wrapper over the empty list does: getMany([]) returns
\* results untouched.
provideDependencies(key, params, st, fuel) ==
  LET n == nodes[key]
      st1 == getMany(n.deps, params, st, fuel)
  IN IF st1.err # NoErr THEN st1
     ELSE LET v == Apply(n.fn, key, params, st1.res, Range(n.deps))
              lg == Append(st1.log, Invocation(key, params, st1.res, v))
          IN IF v.t = "error"
             THEN [st1 EXCEPT !.log = lg, !.err = v]
             ELSE [st1 EXCEPT !.log = lg, !.ret = v]

\* get with the bug of not looking in the results object first: a key that
\* holds a value is computed again and overwritten.
getRecompute(key, params, st, fuel) ==
  IF st.err # NoErr THEN st
  ELSE IF ~has(key) THEN [st EXCEPT !.err = NotFound(key)]
  ELSE IF fuel = 0 THEN [st EXCEPT !.err = RangeError]
  ELSE LET st1 == provideDependencies(key, params, st, fuel - 1)
       IN IF st1.err # NoErr THEN st1
          ELSE [st1 EXCEPT !.res[key] = st1.ret]

\* get with the bug of an entry written for a key whose computation threw.
getStoreFailed(key, params, st, fuel) ==
  IF st.err # NoErr THEN st
  ELSE IF IsDefined(st.res[key]) THEN [st EXCEPT !.ret = st.res[key]]
  ELSE IF ~has(key) THEN [st EXCEPT !.err = NotFound(key)]
  ELSE IF fuel = 0 THEN [st EXCEPT !.err = RangeError]
  ELSE LET st1 == provideDependencies(key, params, st, fuel - 1)
       IN IF st1.err # NoErr THEN [st1 EXCEPT !.res[key] = UNDEF]
          ELSE [st1 EXCEPT !.res[key] = st1.ret]

\* get with the bug of returning the computed value without caching it.
getNoStore(key, params, st, fuel) ==
  IF st.err # NoErr THEN st
  ELSE IF IsDefined(st.res[key]) THEN [st EXCEPT !.ret = st.res[key]]
  ELSE IF ~has(key) THEN [st EXCEPT !.err = NotFound(key)]
  ELSE IF fuel = 0 THEN [st EXCEPT !.err = RangeError]
  ELSE provideDependencies(key, params, st, fuel - 1)

\* get with the bug of reading the stored function into results[key] before
\* the lookup is tested, which leaves an undefined entry for an unknown key.
getMarkMissing(key, params, st, fuel) ==
  IF st.err # NoErr THEN st
  ELSE IF IsDefined(st.res[key]) THEN [st EXCEPT !.ret = st.res[key]]
  ELSE IF ~has(key) THEN [st EXCEPT !.res[key] = UNDEF, !.err = NotFound(key)]
  ELSE IF fuel = 0 THEN [st EXCEPT !.err = RangeError]
  ELSE LET st1 == provideDependencies(key, params, st, fuel - 1)
       IN IF st1.err # NoErr THEN st1
          ELSE [st1 EXCEPT !.res[key] = st1.ret]

\* Fimbul().get on the resolution state st.
get(key, params, st, fuel) ==
  IF st.err # NoErr THEN st
  ELSE IF IsDefined(st.res[key]) THEN [st EXCEPT !.ret = st.res[key]]
  ELSE IF ~has(key) THEN [st EXCEPT !.err = NotFound(key)]
  ELSE IF fuel = 0 THEN [st EXCEPT !.err = RangeError]
  ELSE LET st1 == provideDependencies(key, params, st, fuel - 1)
       IN IF st1.err # NoErr THEN st1
          ELSE [st1 EXCEPT !.res[key] = st1.ret]

\* getMany with the bug of not passing params on to get.
getManyDropParams(keys, params, st, fuel) ==
  IF keys = <<>> \/ st.err # NoErr THEN st
  ELSE LET st1 == get(Head(keys), UNDEF, st, fuel)
       IN IF st1.err # NoErr THEN st1
          ELSE getMany(Tail(keys), params,
                       [st1 EXCEPT !.res[Head(keys)] = st1.ret], fuel)

\* getMany with the bug of wrapping the error of a failed key, as the
\* asynchronous resolveDependencies does.
getManyWrap(keys, params, st, fuel) ==
  IF keys = <<>> \/ st.err # NoErr THEN st
  ELSE LET st1 == get(Head(keys), params, st, fuel)
       IN IF st1.err # NoErr THEN [st1 EXCEPT !.err = Err(<<"Failed to resolve dependencies for",
                                                          Head(keys), st1.err.msg>>)]
          ELSE getMany(Tail(keys), params,
                       [st1 EXCEPT !.res[Head(keys)] = st1.ret], fuel)

\* Fimbul().getMany: keys.reduce over get, each value assigned to results.
getMany(keys, params, st, fuel) ==
  IF keys = <<>> \/ st.err # NoErr THEN st
  ELSE LET st1 == get(Head(keys), params, st, fuel)
       IN IF st1.err # NoErr THEN st1
          ELSE getMany(Tail(keys), params,
                       [st1 EXCEPT !.res[Head(keys)] = st1.ret], fuel)

Start(seed) == [res |-> seed, log |-> <<>>, err |-> NoErr, ret |-> UNDEF]

\* ------------------------------------------------------------------------
\* The asynchronous engine (FimbulAsync)
\* ------------------------------------------------------------------------
\* A promise: pending, fulfilled with val, or rejected with val. wrap says
\* that it is the promise resolveDependencies stored, whose rejection is
\* re-thrown as "Failed to resolve dependencies for <key>: <error>".
Pending(wrap) == [st |-> "pending", val |-> UNDEF, wrap |-> wrap]
Fulfilled(v) == [st |-> "fulfilled", val |-> v, wrap |-> FALSE]
Settled(p, out) ==
  IF out.t = "error" THEN [p EXCEPT !.st = "rejected", !.val = out]
  ELSE [p EXCEPT !.st = "fulfilled", !.val = out]

\* Failed with the bug of a catch handler that drops the caught error.
FailedSwallow(key, error) == Err(<<"Failed to resolve dependencies for", key>>)

\* new Error(`Failed to resolve dependencies for "${key}": ${error}`)
Failed(key, error) == Err(<<"Failed to resolve dependencies for", key, error.msg>>)

\* The resolveDependencies call made by getMany itself (no node owns it).
ROOT == "getMany"

\* Microtasks: the continuation of a resolveDependencies call (its promises
\* all fulfilled, or one rejected with err), or the settlement of the promise
\* stored for key with the outcome of its function.
DepsJob(node, params, err) == [kind |-> "deps", node |-> node, params |-> params, out |-> err]
SettleJob(key, out) == [kind |-> "settle", node |-> key, out |-> out]
\* The promise resolveComputation returned to get settles with out.
TopJob(out) == [kind |-> "top", node |-> ROOT, out |-> out]

\* defineAsync with the bug of a missing duplicate check: the entry is replaced.
defineAsyncOverwrite(key, fn, dependencies) ==
  IF dependencies # NoDeps /\ FirstMissing(dependencies) # 0
  THEN [nodes |-> nodes, order |-> order,
        error |-> NotFound(dependencies[FirstMissing(dependencies)])]
  ELSE [nodes |-> [nodes EXCEPT ![key] =
                     [fn |-> fn,
                      deps |-> IF dependencies = NoDeps THEN <<>> ELSE dependencies]],
        order |-> IF has(key) THEN order ELSE Append(order, key),
        error |-> NoErr]

\* FimbulAsync().define: the registry after the call and the error it throws.
defineAsync(key, fn, dependencies) ==
  IF has(key)
  THEN [nodes |-> nodes, order |-> order, error |-> AlreadyDefined(key)]
  ELSE IF dependencies # NoDeps /\ FirstMissing(dependencies) # 0
  THEN [nodes |-> nodes, order |-> order,
        error |-> NotFound(dependencies[FirstMissing(dependencies)])]
  ELSE [nodes |-> [nodes EXCEPT ![key] =
                     [fn |-> fn,
                      deps |-> IF dependencies = NoDeps THEN <<>> ELSE dependencies]],
        order |-> Append(order, key),
        error |-> NoErr]

\* resultsToPromises with the bug of one promise map for the whole instance:
\* the promises of the other call in flight are carried over.
resultsToPromisesShared(res) ==
  [k \in Keys |-> IF res[k] = ABSENT THEN other.cache[k] ELSE Fulfilled(res[k])]

\* resultsToPromises with the bug of keeping only truthy values.
resultsToPromisesTruthy(res) ==
  [k \in Keys |-> IF res[k] = ABSENT \/ res[k] = UNDEF \/ res[k] = Num(0)
                  THEN ABSENT ELSE Fulfilled(res[k])]

\* Object.fromEntries(Object.entries(results).map(([k, v]) => [k, Promise.resolve(v)]))
resultsToPromises(res) ==
  [k \in Keys |-> IF res[k] = ABSENT THEN ABSENT ELSE Fulfilled(res[k])]

\* The synchronous part of a resolution, up to its first suspension, on the
\* engine state as == [cache, queue, waiting].
RECURSIVE resolveComputation(_, _, _, _, _)
RECURSIVE resolveDependencies(_, _, _, _, _)

\* resolveComputation with the bug of storing the outcome after the await
\* instead of the promise before it: the key requested by get has no promise
\* in the map while its computation is in flight.
resolveComputationLateStore(key, params, wrap, as, fuel) ==
  IF ~has(key)
  THEN IF wrap
       THEN [as EXCEPT !.cache[key] = Pending(wrap),
                       !.queue = Append(as.queue, SettleJob(key, NotFound(key)))]
       ELSE [as EXCEPT !.queue = Append(as.queue, TopJob(NotFound(key)))]
  ELSE IF fuel = 0
  THEN [as EXCEPT !.cache[key] = Pending(wrap),
                  !.queue = Append(as.queue, SettleJob(key, RangeError))]
  ELSE LET as1 == resolveDependencies(key, nodes[key].deps, params, as, fuel - 1)
       IN IF wrap THEN [as1 EXCEPT !.cache[key] = Pending(wrap)] ELSE as1

\* resolveComputation(key) for a key that has no promise yet: the lookup, the
\* call of the stored function (which runs resolveDependencies over the node's
\* dependencies before it suspends) and the store of the returned promise.
\* wrap: the caller is resolveDependencies, which stores the returned promise
\* with its catch handler, also when the lookup threw.
resolveComputation(key, params, wrap, as, fuel) ==
  IF ~has(key)
  THEN IF wrap
       THEN [as EXCEPT !.cache[key] = Pending(wrap),
                       !.queue = Append(as.queue, SettleJob(key, NotFound(key)))]
       ELSE [as EXCEPT !.queue = Append(as.queue, TopJob(NotFound(key)))]
  ELSE IF fuel = 0
  THEN [as EXCEPT !.cache[key] = Pending(wrap),
                  !.queue = Append(as.queue, SettleJob(key, RangeError))]
  ELSE LET as1 == resolveDependencies(key, nodes[key].deps, params, as, fuel - 1)
       IN [as1 EXCEPT !.cache[key] = Pending(wrap)]

\* The map with the bug of starting a computation for every key, cached or not.
RECURSIVE mapKeysUncached(_, _, _, _)
mapKeysUncached(keys, params, as, fuel) ==
  IF keys = <<>> THEN as
  ELSE mapKeysUncached(Tail(keys), params,
                       resolveComputation(Head(keys), params, TRUE, as, fuel), fuel)

\* The map with the bug of walking the list from its end: the last key is
\* started first.
RECURSIVE mapKeysReversed(_, _, _, _)
mapKeysReversed(keys, params, as, fuel) ==
  IF keys = <<>> THEN as
  ELSE LET as1 == mapKeysReversed(Tail(keys), params, as, fuel)
       IN IF as1.cache[Head(keys)] = ABSENT
          THEN resolveComputation(Head(keys), params, TRUE, as1, fuel)
          ELSE as1

\* keys.map(async (key) => { if (!results[key]) results[key] = ...; await results[key] })
RECURSIVE mapKeys(_, _, _, _)
mapKeys(keys, params, as, fuel) ==
  IF keys = <<>> THEN as
  ELSE mapKeys(Tail(keys), params,
               IF as.cache[Head(keys)] = ABSENT
               THEN resolveComputation(Head(keys), params, TRUE, as, fuel)
               ELSE as,
               fuel)

\* resolveDependencies(keys) called by owner: every key is started, then the
\* call awaits Promise.all; it resumes at once if nothing is pending.
resolveDependencies(owner, keys, params, as, fuel) ==
  LET as1 == mapKeys(keys, params, as, fuel)
  IN IF \A i \in 1..Len(keys) : as1.cache[keys[i]].st = "fulfilled"
     THEN [as1 EXCEPT !.queue = Append(as1.queue, DepsJob(owner, params, NoErr))]
     ELSE [as1 EXCEPT !.waiting = Append(as1.waiting, [owner |-> owner, params |-> params])]

\* The keys the resolveDependencies call of owner awaits, with the keys the
\* call in flight was given.
AwaitedBy(owner, keys) == IF owner = ROOT THEN Range(keys) ELSE Range(nodes[owner].deps)

\* resume with the bug of Promise.allSettled in place of Promise.all: a
\* rejected promise counts as done and the call goes on.
RECURSIVE resumeAllSettled(_, _, _, _, _)
resumeAllSettled(key, c, w, q, keys) ==
  IF w = <<>> THEN [queue |-> q, waiting |-> <<>>]
  ELSE LET m == Head(w).owner
           on == key \in AwaitedBy(m, keys)
           ready == on /\ \A d \in AwaitedBy(m, keys) : c[d].st # "pending"
           r == resumeAllSettled(key, c, Tail(w),
                                 IF ready THEN Append(q, DepsJob(m, Head(w).params, NoErr)) ELSE q,
                                 keys)
       IN IF ready THEN r
          ELSE [r EXCEPT !.waiting = <<Head(w)>> \o r.waiting]

\* resume with the bug of a settled promise that wakes nobody: the awaiting
\* resolveDependencies calls stay suspended.
resumeNever(key, c, w, q, keys) == [queue |-> q, waiting |-> w]

\* The promise of key has settled in cache c: resume, oldest first, every
\* waiting resolveDependencies call that Promise.all now settles.
RECURSIVE resume(_, _, _, _, _)
resume(key, c, w, q, keys) ==
  IF w = <<>> THEN [queue |-> q, waiting |-> <<>>]
  ELSE LET m == Head(w).owner
           on == key \in AwaitedBy(m, keys)
           rejected == on /\ c[key].st = "rejected"
           ready == on /\ \A d \in AwaitedBy(m, keys) : c[d].st = "fulfilled"
           r == resume(key, c, Tail(w),
                       IF rejected THEN Append(q, DepsJob(m, Head(w).params, c[key].val))
                       ELSE IF ready THEN Append(q, DepsJob(m, Head(w).params, NoErr))
                       ELSE q,
                       keys)
       IN IF rejected \/ ready THEN r
          ELSE [r EXCEPT !.waiting = <<Head(w)>> \o r.waiting]

\* resolved with the bug of handing over every fulfilled entry of the promise
\* map, requested or not.
resolvedAll(keys, c) ==
  [k \in Keys |-> IF c[k] # ABSENT /\ c[k].st = "fulfilled" THEN c[k].val ELSE ABSENT]

\* Object.fromEntries of [key, await results[key]] over the dependencies.
resolved(keys, c) ==
  [k \in Keys |-> IF k \in Range(keys) THEN c[k].val ELSE ABSENT]

\* ------------------------------------------------------------------------
\* Actions. The caller finishes one resolution before its next API call:
\* it either repeats the call with the results object it holds, or lets the
\* object go (Discard) and goes on with define or with a new resolution.
\* ------------------------------------------------------------------------
NoCache == [k \in Keys |-> ABSENT]

\* Logical time, in units of the latency T of a node function that returns a
\* pending promise: now is the time elapsed since the resolution call, at[k]
\* the time the function of k was invoked and end[k] the time its promise
\* settled (-1: not yet).
NoClock == [now |-> 0, at |-> [k \in Keys |-> -1], end |-> [k \in Keys |-> -1]]

\* No second call: the per-call state of a call that was never made.
NoOther ==
  [op |-> [name |-> "none"], results |-> EmptyObj, calls |-> <<>>, cache |-> NoCache,
   queue |-> <<>>, waiting |-> <<>>, running |-> {}, clock |-> NoClock]

Init ==
  /\ variant \in {"sync", "async"}
  /\ nodes = [k \in Keys |-> NoNode]
  /\ order = <<>>
  /\ op = [name |-> "new"]
  /\ results = EmptyObj
  /\ calls = <<>>
  /\ cache = NoCache
  /\ queue = <<>>
  /\ waiting = <<>>
  /\ running = {}
  /\ clock = NoClock
  /\ other = NoOther

\* A resolution was started and the caller still holds its results object.
Holding == op.name \in {"get", "getMany"}

\* Nothing of the last resolution is still in flight.
Quiescent == queue = <<>> /\ running = {}

\* The first element of dependencies that is not registered ("none" if all
\* are, or if there is no list), read off the registry before the call.
MissingDep(dependencies) ==
  IF dependencies = NoDeps \/ \A i \in 1..Len(dependencies) : has(dependencies[i])
  THEN "none"
  ELSE dependencies[CHOOSE i \in 1..Len(dependencies) :
                      /\ ~has(dependencies[i])
                      /\ \A j \in 1..(i - 1) : has(dependencies[j])]

DefineOp(key, dependencies, r) ==
  [name |-> "define", key |-> key, wasDefined |-> has(key),
   missing |-> MissingDep(dependencies), error |-> r.error]

Define ==
  /\ variant = "sync"
  /\ ~Holding
  /\ \E key \in DefinableKeys, fn \in Fns, dependencies \in DepLists :
       LET r == define(key, fn, dependencies)
       IN /\ nodes' = r.nodes
          /\ order' = r.order
          /\ op' = DefineOp(key, dependencies, r)
  /\ UNCHANGED <<variant, results, calls, asyncVars>>

DefineAsync ==
  /\ variant = "async"
  /\ ~Holding
  /\ \E key \in DefinableKeys, fn \in Fns, dependencies \in DepLists :
       LET r == defineAsync(key, fn, dependencies)
       IN /\ nodes' = r.nodes
          /\ order' = r.order
          /\ op' = DefineOp(key, dependencies, r)
  /\ UNCHANGED <<variant, results, calls, asyncVars>>

\* The record of a resolution call: status is "fulfilled" when it returned
\* (its promise fulfilled), "rejected" when it threw (its promise rejected),
\* "pending" while the promise is.
CallOp(name, keys, params, seed, status, error, ret) ==
  [name |-> name, keys |-> keys, params |-> params, seed |-> seed,
   status |-> status, error |-> error, ret |-> ret]

\* SyncOp with the bug of getMany returning a fresh object that holds only
\* the requested keys.
SyncOpRequestedOnly(name, keys, params, seed, st) ==
  CallOp(name, keys, params, seed,
         IF st.err # NoErr THEN "rejected" ELSE "fulfilled",
         st.err,
         IF st.err # NoErr THEN UNDEF
         ELSE IF name = "get" THEN st.ret
         ELSE [k \in Keys |-> IF k \in Range(keys) THEN st.res[k] ELSE ABSENT])

SyncOp(name, keys, params, seed, st) ==
  CallOp(name, keys, params, seed,
         IF st.err # NoErr THEN "rejected" ELSE "fulfilled",
         st.err,
         IF st.err # NoErr THEN UNDEF
         ELSE IF name = "get" THEN st.ret ELSE st.res)

\* get with the bug of entering an unknown key into the registry.
DoGetAutoDefine(key, params, seed) ==
  LET st == get(key, params, Start(seed), MaxDepth)
  IN /\ op' = SyncOp("get", <<key>>, params, seed, st)
     /\ results' = st.res
     /\ calls' = st.log
     /\ nodes' = IF has(key) THEN nodes
                 ELSE [nodes EXCEPT ![key] = [fn |-> "throw", deps |-> <<>>]]
     /\ UNCHANGED <<variant, order, asyncVars>>

\* get(key, params, seed)
DoGet(key, params, seed) ==
  LET st == get(key, params, Start(seed), MaxDepth)
  IN /\ op' = SyncOp("get", <<key>>, params, seed, st)
     /\ results' = st.res
     /\ calls' = st.log
     /\ UNCHANGED <<variant, nodes, order, asyncVars>>

\* getMany(keys, params, seed)
DoGetMany(keys, params, seed) ==
  LET st == getMany(keys, params, Start(seed), MaxDepth)
  IN /\ op' = SyncOp("getMany", keys, params, seed, st)
     /\ results' = st.res
     /\ calls' = st.log
     /\ UNCHANGED <<variant, nodes, order, asyncVars>>

Get ==
  /\ variant = "sync"
  /\ ~Holding
  /\ \E key \in Keys, params \in Params, seed \in Seeds : DoGet(key, params, seed)

GetMany ==
  /\ variant = "sync"
  /\ ~Holding
  /\ \E keys \in SeqsUpTo(Keys, MaxIds), params \in Params, seed \in Seeds :
       DoGetMany(keys, params, seed)

\* The same call once more, with the results object the first call was given.
Again ==
  /\ variant = "sync"
  /\ Holding
  /\ IF op.name = "get"
     THEN DoGet(op.keys[1], op.params, results)
     ELSE DoGetMany(op.keys, op.params, results)

\* Discard with the bug of an engine that keeps what the call computed.
DiscardKeep ==
  /\ Holding
  /\ Quiescent
  /\ op' = [name |-> "discard"]
  /\ UNCHANGED <<variant, nodes, order, results, calls, asyncVars>>

Discard ==
  /\ Holding
  /\ Quiescent
  /\ op' = [name |-> "discard"]
  /\ results' = EmptyObj
  /\ calls' = <<>>
  /\ cache' = NoCache
  /\ waiting' = <<>>
  /\ clock' = NoClock
  /\ UNCHANGED <<other, variant, nodes, order, queue, running>>

\* get with the bug of a lookup made before the asynchronous part: an
\* unregistered key throws at the call instead of rejecting the promise.
DoGetAsyncThrows(key, params, seed) ==
  IF IsDefined(seed[key])
  THEN /\ op' = CallOp("get", <<key>>, params, seed, "fulfilled", NoErr, seed[key])
       /\ cache' = NoCache
       /\ queue' = <<>>
       /\ waiting' = <<>>
  ELSE IF ~has(key)
  THEN /\ op' = CallOp("get", <<key>>, params, seed, "rejected", NotFound(key), UNDEF)
       /\ cache' = resultsToPromises(seed)
       /\ queue' = <<>>
       /\ waiting' = <<>>
  ELSE LET as == resolveComputation(key, params, FALSE,
                   [cache |-> resultsToPromises(seed), queue |-> <<>>, waiting |-> <<>>],
                   MaxDepth)
       IN /\ op' = CallOp("get", <<key>>, params, seed, "pending", NoErr, UNDEF)
          /\ cache' = as.cache
          /\ queue' = as.queue
          /\ waiting' = as.waiting

\* FimbulAsync().get(key, params, seed): a defined seed value is returned as
\* it is; otherwise resolveComputation runs on a fresh promise map.
DoGetAsync(key, params, seed) ==
  IF IsDefined(seed[key])
  THEN /\ op' = CallOp("get", <<key>>, params, seed, "fulfilled", NoErr, seed[key])
       /\ cache' = NoCache
       /\ queue' = <<>>
       /\ waiting' = <<>>
  ELSE LET c == resultsToPromises(seed)
           as0 == [cache |-> c, queue |-> <<>>, waiting |-> <<>>]
           as == IF c[key] # ABSENT
                 THEN [as0 EXCEPT !.queue = <<TopJob(c[key].val)>>]
                 ELSE resolveComputation(key, params, FALSE, as0, MaxDepth)
       IN /\ op' = CallOp("get", <<key>>, params, seed, "pending", NoErr, UNDEF)
          /\ cache' = as.cache
          /\ queue' = as.queue
          /\ waiting' = as.waiting

\* FimbulAsync().getMany(keys, params, seed)
DoGetManyAsync(keys, params, seed) ==
  LET as == resolveDependencies(ROOT, keys, params,
              [cache |-> resultsToPromises(seed), queue |-> <<>>, waiting |-> <<>>],
              MaxDepth)
  IN /\ op' = CallOp("getMany", keys, params, seed, "pending", NoErr, UNDEF)
     /\ cache' = as.cache
     /\ queue' = as.queue
     /\ waiting' = as.waiting

GetAsync ==
  /\ variant = "async"
  /\ ~Holding
  /\ \E key \in Keys, params \in Params, seed \in Seeds :
       /\ DoGetAsync(key, params, seed)
       /\ results' = seed
  /\ calls' = <<>>
  /\ clock' = NoClock
  /\ UNCHANGED <<other, variant, nodes, order, running>>

GetManyAsync ==
  /\ variant = "async"
  /\ ~Holding
  /\ \E keys \in SeqsUpTo(Keys, MaxIds), params \in Params, seed \in Seeds :
       /\ DoGetManyAsync(keys, params, seed)
       /\ results' = seed
  /\ calls' = <<>>
  /\ clock' = NoClock
  /\ UNCHANGED <<other, variant, nodes, order, running>>

\* The continuation of the stored function of a node after its
\* resolveDependencies fulfilled: the user function is called with the
\* resolved dependency map; it returns a value (or throws) at once, or a
\* promise that stays pending until Timer settles it.
Invoke ==
  /\ queue # <<>>
  /\ LET job == Head(queue)
     IN /\ job.kind = "deps" /\ job.node # ROOT /\ job.out = NoErr
        /\ LET key == job.node
               handed == resolved(nodes[key].deps, cache)
               out == Apply(nodes[key].fn, key, job.params, handed, Range(nodes[key].deps))
           IN /\ calls' = Append(calls, Invocation(key, job.params, handed, out))
              /\ \/ /\ queue' = Append(Tail(queue), SettleJob(key, out))
                    /\ clock' = [clock EXCEPT !.at[key] = clock.now, !.end[key] = clock.now]
                    /\ UNCHANGED running
                 \/ /\ queue' = Tail(queue)
                    /\ clock' = [clock EXCEPT !.at[key] = clock.now]
                    /\ running' = running \cup {[key |-> key, out |-> out]}
  /\ UNCHANGED <<other, variant, nodes, order, op, results, cache, waiting>>

\* The same continuation after resolveDependencies rejected: the stored
\* function rejects with that error and the user function is not called.
DepsFailed ==
  /\ queue # <<>>
  /\ LET job == Head(queue)
     IN /\ job.kind = "deps" /\ job.node # ROOT /\ job.out # NoErr
        /\ queue' = Append(Tail(queue), SettleJob(job.node, job.out))
  /\ UNCHANGED <<other, variant, nodes, order, op, results, calls, cache, waiting, running, clock>>

\* Timer with the bug of latencies that add up: the wait of a pending
\* function starts only when the wait before it is over.
TimerSerial ==
  /\ queue = <<>>
  /\ \E r \in running :
       /\ running' = running \ {r}
       /\ queue' = <<SettleJob(r.key, r.out)>>
       /\ clock' = [clock EXCEPT !.now = clock.now + 1, !.end[r.key] = clock.now + 1]
  /\ UNCHANGED <<other, variant, nodes, order, op, results, calls, cache, waiting>>

\* A pending promise returned by a user function settles (a timer fires):
\* tasks run only when no microtask is left. The function took the latency T
\* or, when a timer started later has fired before, longer.
Timer ==
  /\ queue = <<>>
  /\ \E r \in running :
       /\ running' = running \ {r}
       /\ queue' = <<SettleJob(r.key, r.out)>>
       /\ LET due == clock.at[r.key] + 1
              now == IF due > clock.now THEN due ELSE clock.now
          IN clock' = [clock EXCEPT !.now = now, !.end[r.key] = now]
  /\ UNCHANGED <<other, variant, nodes, order, op, results, calls, cache, waiting>>

\* Settle with the bug of dropping the promise of a failed computation from
\* the promise map, so that a later request would start it again.
SettleForget ==
  /\ queue # <<>>
  /\ LET job == Head(queue)
     IN /\ job.kind = "settle"
        /\ LET key == job.node
               p == cache[key]
               out == IF job.out.t = "error" /\ p.wrap THEN Failed(key, job.out) ELSE job.out
               c == [cache EXCEPT ![key] = Settled(p, out)]
               r == resume(key, c, waiting, Tail(queue), op.keys)
           IN /\ cache' = IF out.t = "error" THEN [c EXCEPT ![key] = ABSENT] ELSE c
              /\ queue' = IF p.wrap THEN r.queue ELSE Append(r.queue, TopJob(out))
              /\ waiting' = r.waiting
  /\ UNCHANGED <<other, variant, nodes, order, op, results, calls, running, clock>>

\* The promise stored for a key settles; the awaits on it resume. The promise
\* resolveComputation stored for get (no catch handler) is the one get awaits.
Settle ==
  /\ queue # <<>>
  /\ LET job == Head(queue)
     IN /\ job.kind = "settle"
        /\ LET key == job.node
               p == cache[key]
               out == IF job.out.t = "error" /\ p.wrap THEN Failed(key, job.out) ELSE job.out
               c == [cache EXCEPT ![key] = Settled(p, out)]
               r == resume(key, c, waiting, Tail(queue), op.keys)
           IN /\ cache' = c
              /\ queue' = IF p.wrap THEN r.queue ELSE Append(r.queue, TopJob(out))
              /\ waiting' = r.waiting
  /\ UNCHANGED <<other, variant, nodes, order, op, results, calls, running, clock>>

\* Complete with the bug of cancelling what is still in flight when the
\* promise of the call rejects.
CompleteCancel ==
  /\ queue # <<>>
  /\ LET job == Head(queue)
         failed == job.out.t = "error"
     IN /\ job.node = ROOT
        /\ op' = [op EXCEPT !.status = IF failed THEN "rejected" ELSE "fulfilled",
                            !.error = IF failed THEN job.out ELSE NoErr,
                            !.ret = IF failed THEN UNDEF
                                    ELSE IF job.kind = "top" THEN job.out
                                    ELSE resolved(op.keys, cache)]
        /\ queue' = IF failed THEN <<>> ELSE Tail(queue)
        /\ running' = IF failed THEN {} ELSE running
  /\ UNCHANGED <<other, variant, nodes, order, results, calls, cache, waiting, clock>>

\* The promise the caller holds settles. getMany: its resolveDependencies
\* call resumes and fulfils with the map of the requested keys, or rejects.
\* get: it settles as the promise resolveComputation returned.
Complete ==
  /\ queue # <<>>
  /\ LET job == Head(queue)
         failed == job.out.t = "error"
     IN /\ job.node = ROOT
        /\ op' = [op EXCEPT !.status = IF failed THEN "rejected" ELSE "fulfilled",
                            !.error = IF failed THEN job.out ELSE NoErr,
                            !.ret = IF failed THEN UNDEF
                                    ELSE IF job.kind = "top" THEN job.out
                                    ELSE resolved(op.keys, cache)]
        /\ queue' = Tail(queue)
  /\ UNCHANGED <<other, variant, nodes, order, results, calls, cache, waiting, running, clock>>

\* The per-call state of the resolution call whose steps are being taken.
Current ==
  [op |-> op, results |-> results, calls |-> calls, cache |-> cache,
   queue |-> queue, waiting |-> waiting, running |-> running, clock |-> clock]

\* The resolution call c becomes the one whose steps are taken.
Resume(c) ==
  /\ op' = c.op
  /\ results' = c.results
  /\ calls' = c.calls
  /\ cache' = c.cache
  /\ queue' = c.queue
  /\ waiting' = c.waiting
  /\ running' = c.running
  /\ clock' = c.clock

\* The caller of get/getMany goes on while the returned promise is pending:
\* the call in flight is set aside, and the caller may make a second call on
\* the same instance. Each call keeps the promise map its own
\* resultsToPromises created, its own continuations and its own outcome.
Park ==
  /\ variant = "async"
  /\ Holding
  /\ other = NoOther
  /\ other' = Current
  /\ Resume([NoOther EXCEPT !.op = [name |-> "new"]])
  /\ UNCHANGED <<variant, nodes, order>>

\* The event loop turns from the continuations of one call to those of the
\* other call in flight.
Switch ==
  /\ variant = "async"
  /\ Holding
  /\ other # NoOther
  /\ other' = Current
  /\ Resume(other)
  /\ UNCHANGED <<variant, nodes, order>>

\* Both calls are over and the caller drops both results.
Finish ==
  /\ variant = "async"
  /\ other # NoOther
  /\ Holding /\ Quiescent
  /\ other.op.name \in {"get", "getMany"}
  /\ other.queue = <<>> /\ other.running = {}
  /\ other' = NoOther
  /\ Resume([NoOther EXCEPT !.op = [name |-> "discard"]])
  /\ UNCHANGED <<variant, nodes, order>>

NextSync == Define \/ Get \/ GetMany \/ Again \/ Discard

NextAsync ==
  \/ DefineAsync \/ GetAsync \/ GetManyAsync
  \/ Invoke \/ DepsFailed \/ Timer \/ Settle \/ Complete
  \/ Discard

Next == NextSync \/ NextAsync

Spec == Init /\ [][Next]_vars

\* A Fimbul() instance alone.
InitSync == Init /\ variant = "sync"

SpecSync == InitSync /\ [][NextSync]_vars

\* A FimbulAsync() instance alone.
InitAsync == Init /\ variant = "async"

SpecAsync == InitAsync /\ [][NextAsync]_vars

\* The first of two overlapping calls: get(key, 1, seed) on a registry that
\* holds every key.
FirstCall ==
  /\ other = NoOther
  /\ \A k \in Keys : has(k)
  /\ GetAsync
  /\ op'.params = Num(1)

\* The second call, made while the first is set aside: get of the same key
\* with other params and its own, empty, results object.
SecondCall ==
  /\ other # NoOther
  /\ GetAsync
  /\ op'.params = UNDEF
  /\ op'.keys = other.op.keys
  /\ op'.seed = EmptyObj

\* Two resolution calls in flight on one FimbulAsync() instance: the registry
\* is built, a first call is made and set aside at any point of its progress,
\* a second call is made, and the continuations of both are taken in any
\* interleaving. Timers fire only when no microtask of either call is left.
NextTwoCalls ==
  \/ (other = NoOther /\ DefineAsync)
  \/ FirstCall \/ SecondCall
  \/ Invoke \/ DepsFailed \/ Settle \/ Complete
  \/ (other.queue = <<>> /\ Timer)
  \/ Park \/ Switch \/ Finish

SpecTwoCalls == InitAsync /\ [][NextTwoCalls]_vars

\* An instance whose event loop keeps running: a queued microtask is run and
\* a pending timer fires.
SpecFair ==
  /\ Init /\ [][Next]_vars
  /\ WF_vars(Invoke) /\ WF_vars(DepsFailed) /\ WF_vars(Settle) /\ WF_vars(Complete)
  /\ WF_vars(Timer)

\* Property names every JavaScript object inherits from Object.prototype
\* (one of them; toString, valueOf, hasOwnProperty, ... behave alike).
Inherited == {"constructor"}

\* Identifiers a caller may register: the keys and the inherited names.
Ids == Keys \cup Inherited

\* The function object an object literal answers with for an inherited name.
Builtin(id) == [t |-> "function", name |-> id]

\* results = {}: what the default results object answers to results[key],
\* own properties (none) and inherited ones.
FreshObj == [k \in Ids |-> IF k \in Inherited THEN Builtin(k) ELSE ABSENT]

\* An instance whose identifiers are drawn from Ids.
InitAnyId ==
  /\ variant \in {"sync", "async"}
  /\ nodes = [k \in Ids |-> NoNode]
  /\ order = <<>>
  /\ op = [name |-> "new"]
  /\ results = EmptyObj
  /\ calls = <<>>
  /\ cache = NoCache
  /\ queue = <<>>
  /\ waiting = <<>>
  /\ running = {}
  /\ clock = NoClock
  /\ other = NoOther

\* define(id, fn) of a node without dependencies, under any identifier.
DefineAnyId ==
  /\ ~Holding
  /\ \E key \in Ids, fn \in Fns :
       LET r == IF variant = "sync" THEN define(key, fn, NoDeps)
                ELSE defineAsync(key, fn, NoDeps)
       IN /\ nodes' = r.nodes
          /\ order' = r.order
          /\ op' = DefineOp(key, NoDeps, r)
  /\ UNCHANGED <<variant, results, calls, asyncVars>>

\* get(id, params) with no results argument: results defaults to {}.
GetAnyId ==
  /\ ~Holding
  /\ \E key \in Ids, params \in Params :
       IF variant = "sync"
       THEN DoGet(key, params, FreshObj)
       ELSE /\ DoGetAsync(key, params, FreshObj)
            /\ results' = FreshObj
            /\ calls' = <<>>
            /\ clock' = NoClock
            /\ UNCHANGED <<other, variant, nodes, order, running>>

NextAnyId ==
  \/ DefineAnyId \/ GetAnyId
  \/ Invoke \/ Timer \/ Settle \/ Complete
  \/ Discard

SpecAnyId == InitAnyId /\ [][NextAnyId]_vars

\* ------------------------------------------------------------------------
\* Properties
\* ------------------------------------------------------------------------
\* How often the user function of key was called in the last resolution.
Times(key) == Cardinality({i \in 1..Len(calls) : calls[i].key = key})

\* The keys declared as dependencies of a registered node.
Declared(key) == Range(nodes[key].deps)

\* The value the finished call returned for a requested key.
Returned(key) == IF op.name = "get" THEN op.ret ELSE op.ret[key]

\* The nodes a call for key needs, given the values the caller supplied: key
\* itself and, unless key is supplied or unknown, what its dependencies need.
RECURSIVE Required(_, _, _)
Required(key, seed, fuel) ==
  {key} \cup
  (IF IsDefined(seed[key]) \/ ~has(key) \/ fuel = 0 THEN {}
   ELSE UNION {Required(nodes[key].deps[i], seed, fuel - 1) :
                 i \in 1..Len(nodes[key].deps)})

\* Recursive reference evaluation: the function of key applied to params and
\* to the reference values of its declared dependencies only.
RECURSIVE Reference(_, _, _)
Reference(key, params, fuel) ==
  IF fuel = 0 THEN RangeError
  ELSE LET ref == [k \in Keys |-> IF k \in Declared(key)
                                  THEN Reference(k, params, fuel - 1) ELSE ABSENT]
           bad == {i \in 1..Len(nodes[key].deps) : ref[nodes[key].deps[i]].t = "error"}
       IN IF bad # {}
          THEN ref[nodes[key].deps[CHOOSE i \in bad : \A j \in bad : i <= j]]
          ELSE Apply(nodes[key].fn, key, params, ref, Declared(key))

\* C1 (as claimed): one synchronous get or getMany calls the function of
\* each node at most once, and exactly once the function of a node that two
\* requested nodes both depend on.
C1_SyncAtMostOnce ==
  (variant = "sync" /\ Holding) =>
    /\ \A k \in Keys : Times(k) <= 1
    /\ \A k \in Keys :
         ( /\ op.status = "fulfilled"
           /\ ~IsDefined(op.seed[k])
           /\ \E i, j \in 1..Len(op.keys) :
                /\ op.keys[i] # op.keys[j]
                /\ has(op.keys[i]) /\ has(op.keys[j])
                /\ ~IsDefined(op.seed[op.keys[i]]) /\ ~IsDefined(op.seed[op.keys[j]])
                /\ k \in Declared(op.keys[i]) \cap Declared(op.keys[j]) )
         => Times(k) = 1

\* C2: in the asynchronous engine the function of each node is called at
\* most once per resolution, at every point of every interleaving.
C2_AsyncAtMostOnce ==
  variant = "async" => \A k \in Keys : Times(k) <= 1

\* The registered nodes whose stored function the resolution has called.
Started(m) == has(m) /\ cache[m] # ABSENT /\ op.seed[m] = ABSENT

\* How many requests for key the resolution has made: its occurrences in the
\* requested list and in the dependency lists of the started nodes.
Requests(key) ==
  Cardinality({i \in 1..Len(op.keys) : op.keys[i] = key}) +
  Cardinality({<<m, i>> \in Keys \X (1..MaxDeps) :
                 /\ Started(m)
                 /\ i <= Len(nodes[m].deps) /\ nodes[m].deps[i] = key})

\* C2 witness: a finished asynchronous resolution in which a node requested
\* both directly and as a dependency was invoked and its function rejected.
C2_Witness ==
  /\ variant = "async" /\ Holding /\ Quiescent
  /\ \E k \in Range(op.keys) :
       /\ \E m \in Keys : Started(m) /\ k \in Declared(m)
       /\ Requests(k) >= 2
       /\ \E i \in 1..Len(calls) : calls[i].key = k /\ calls[i].out.t = "error"

\* C3: the registry is acyclic: every declared dependency of a registered
\* node was registered strictly before the node.
C3_Acyclic ==
  \A i \in 1..Len(order) :
    \A d \in Declared(order[i]) :
      \E j \in 1..(i - 1) : order[j] = d

\* C3 witness: a failed define on a registry that holds a node with
\* dependencies.
C3_Witness ==
  /\ op.name = "define" /\ op.error # NoErr
  /\ \E k \in Keys : has(k) /\ nodes[k].deps # <<>>

\* C4: define of a registered id fails with the duplicate error and leaves
\* every registry entry as it was.
C4_DuplicateRejected ==
  [][(op'.name = "define" /\ op'.wasDefined) =>
       /\ op'.error = AlreadyDefined(op'.key)
       /\ nodes' = nodes
       /\ order' = order]_vars

\* C4 witness: a define of an id that was registered, in the async variant.
C4_Witness ==
  /\ op.name = "define" /\ op.wasDefined /\ variant = "async"

\* C5: define with an unregistered dependency fails at the call and
\* registers nothing: the registry is unchanged and has(id) stays false.
C5_MissingDependencyRejected ==
  [][(op'.name = "define" /\ op'.missing # "none") =>
       /\ op'.error # NoErr
       /\ nodes' = nodes
       /\ order' = order
       /\ (~op'.wasDefined => nodes'[op'.key] = NoNode)]_vars

\* C5 witness: a define of a new id with an unregistered dependency.
C5_Witness ==
  /\ op.name = "define" /\ op.missing # "none" /\ ~op.wasDefined
  /\ op.error = NotFound(op.missing)

\* C6 (as claimed): a synchronous get with an empty cache returns the
\* reference value of the node.
C6_GetIsReference ==
  (variant = "sync" /\ op.name = "get" /\ op.seed = EmptyObj /\ has(op.keys[1])) =>
    LET ref == Reference(op.keys[1], op.params, MaxDepth)
    IN IF ref.t = "error" THEN op.status = "rejected" /\ op.error = ref
       ELSE op.status = "fulfilled" /\ op.ret = ref

\* C7 (as claimed): after a successful synchronous get the results object
\* holds a defined value for the id and for every node it required.
C7_DefinedValues ==
  (variant = "sync" /\ op.name = "get" /\ op.status = "fulfilled") =>
    \A k \in Required(op.keys[1], op.seed, MaxDepth) : IsDefined(results[k])

\* C7 (amended): after a successful synchronous get the results object has
\* an entry for the id and for every node it required, holding the supplied
\* value or the value the node's function returned in this call.
C7_Entries ==
  (variant = "sync" /\ op.name = "get" /\ op.status = "fulfilled") =>
    \A k \in Required(op.keys[1], op.seed, MaxDepth) :
      /\ results[k] # ABSENT
      /\ IsDefined(op.seed[k]) => results[k] = op.seed[k]
      /\ ~IsDefined(op.seed[k]) =>
           \E i \in 1..Len(calls) : calls[i].key = k /\ calls[i].out = results[k]

\* C7 witness: a successful get that required a dependency and whose node
\* function returned undefined.
C7_Witness ==
  /\ variant = "sync" /\ op.name = "get" /\ op.status = "fulfilled"
  /\ Cardinality(Required(op.keys[1], op.seed, MaxDepth)) >= 2
  /\ \E i \in 1..Len(calls) : calls[i].out = UNDEF

\* C8 (as claimed): after a successful asynchronous call the supplied
\* results object holds the value of each requested id.
C8_AsyncFillsResults ==
  (variant = "async" /\ Holding /\ op.status = "fulfilled") =>
    \A k \in Range(op.keys) : IsDefined(Returned(k)) => results[k] = Returned(k)

\* Values JavaScript treats as false (of those the model computes).
Falsy(v) == v = UNDEF \/ v = Num(0)

\* C9 (as claimed): a node whose function returned a falsy or nullish value
\* is called once per synchronous resolution and its dependents get the value.
C9_FalsyCached ==
  (variant = "sync" /\ Holding) =>
    \A i \in 1..Len(calls) :
      Falsy(calls[i].out) =>
        /\ Times(calls[i].key) = 1
        /\ \A j \in 1..Len(calls) :
             (j > i /\ calls[i].key \in Declared(calls[j].key)) =>
               calls[j].handed[calls[i].key] = calls[i].out

\* C10: a defined value supplied for an id is what the call returns for it,
\* the id's function is not called, nodes depending on the id are handed the
\* supplied value, and no not-found error is raised for the id.
C10_SeedHit ==
  Holding =>
    \A k \in Keys :
      IsDefined(op.seed[k]) =>
        /\ Times(k) = 0
        /\ (op.status = "fulfilled" /\ k \in Range(op.keys)) => Returned(k) = op.seed[k]
        /\ \A i \in 1..Len(calls) :
             k \in Declared(calls[i].key) => calls[i].handed[k] = op.seed[k]
        /\ op.error \notin {NotFound(k), Failed(k, NotFound(k))}

\* C10 witness: an asynchronous getMany that returned the supplied value of
\* a requested id and invoked a node depending on that id.
C10_Witness ==
  /\ variant = "async" /\ Holding /\ op.status = "fulfilled"
  /\ \E k \in Range(op.keys) :
       /\ IsDefined(op.seed[k])
       /\ \E i \in 1..Len(calls) : k \in Declared(calls[i].key)

\* C11: get of an id that is neither registered nor holds a defined value in
\* the supplied results fails with the not-found error (sync: at the call;
\* async: the promise rejects once its microtask has run), calls no function
\* and leaves the supplied results object as it was.
C11_UnknownIdFails ==
  (Holding /\ op.name = "get" /\ ~has(op.keys[1]) /\ ~IsDefined(op.seed[op.keys[1]])) =>
    /\ results = op.seed
    /\ calls = <<>>
    /\ IF variant = "async" /\ queue # <<>>
       THEN op.status = "pending"
       ELSE op.status = "rejected" /\ op.error = NotFound(op.keys[1])

\* C11 witness: an asynchronous get of an unregistered id, given a results
\* object that holds a value for another id, has rejected.
C11_Witness ==
  /\ variant = "async" /\ op.name = "get" /\ op.status = "rejected"
  /\ ~has(op.keys[1]) /\ op.seed # EmptyObj /\ ~IsDefined(op.seed[op.keys[1]])

\* C12: a successful synchronous getMany returns the results object it was
\* given, which then has an entry for every requested id and for every node
\* computed during the call (the value its function returned) and keeps
\* every other entry as supplied.
C12_GetManyReturnsResults ==
  (variant = "sync" /\ op.name = "getMany" /\ op.status = "fulfilled") =>
    /\ op.ret = results
    /\ \A k \in Range(op.keys) : results[k] # ABSENT
    /\ \A i \in 1..Len(calls) :
         (\A j \in (i + 1)..Len(calls) : calls[j].key # calls[i].key) =>
           results[calls[i].key] = calls[i].out
    /\ \A k \in Keys : Times(k) = 0 => results[k] = op.seed[k]

\* C12 witness: a successful getMany given a seeded results object that
\* computed a dependency which was not itself requested.
C12_Witness ==
  /\ variant = "sync" /\ op.name = "getMany" /\ op.status = "fulfilled"
  /\ op.seed # EmptyObj
  /\ \E i \in 1..Len(calls) : calls[i].key \notin Range(op.keys)

\* C13: the promise of an asynchronous getMany fulfils only when the promise
\* of every requested id has fulfilled, with a map holding for each requested
\* id the value (not the promise) it fulfilled with; it rejects, with the
\* error of a rejected requested id, when one of them rejects; and once
\* nothing is in flight it has fulfilled or rejected accordingly.
C13_GetManyAsyncResult ==
  (variant = "async" /\ op.name = "getMany") =>
    /\ op.status = "fulfilled" =>
         \A k \in Range(op.keys) :
           /\ cache[k].st = "fulfilled"
           /\ op.ret[k] = cache[k].val
           /\ op.ret[k].t \in {"number", "undefined"}
    /\ op.status = "rejected" =>
         \E k \in Range(op.keys) : cache[k].st = "rejected" /\ op.error = cache[k].val
    /\ Quiescent =>
         /\ op.status # "pending"
         /\ (\E k \in Range(op.keys) : cache[k].st = "rejected") => op.status = "rejected"

\* C13 witness: an asynchronous getMany of two different ids, both computed
\* in the call, has fulfilled.
C13_Witness ==
  /\ variant = "async" /\ op.name = "getMany" /\ op.status = "fulfilled"
  /\ \E k1, k2 \in Range(op.keys) : k1 # k2 /\ Times(k1) = 1 /\ Times(k2) = 1

\* The case of C14: the asynchronous get of a node c that declares two
\* different dependency-free nodes, whose functions each returned a pending
\* promise (settled after the latency T), while the function of c returned
\* at once.
C14_Case ==
  /\ variant = "async" /\ op.name = "get" /\ op.status = "fulfilled"
  /\ has(op.keys[1])
  /\ LET c == op.keys[1]
         deps == nodes[c].deps
     IN /\ Len(deps) = 2 /\ deps[1] # deps[2]
        /\ \A i \in 1..2 : /\ nodes[deps[i]].deps = <<>>
                           /\ clock.end[deps[i]] > clock.at[deps[i]]
        /\ clock.at[c] >= 0 /\ clock.end[c] = clock.at[c]

\* C14: in that case both dependencies were invoked at time 0 and get(c)
\* fulfilled at time T (one latency), not 2T.
C14_IndependentOverlap ==
  C14_Case =>
    LET c == op.keys[1]
    IN /\ \A i \in 1..2 : clock.at[nodes[c].deps[i]] = 0 /\ clock.end[nodes[c].deps[i]] = 1
       /\ clock.at[c] = 1
       /\ clock.now = 1

\* C14 witness: the case has happened.
C14_Witness == C14_Case /\ clock.now > 0

RECURSIVE Surfaces(_, _, _)
Surfaces(err, d, e) ==
  /\ Len(err.msg) = 3
  /\ err.msg[1] = "Failed to resolve dependencies for"
  /\ \/ err = Failed(d, e)
     \/ Surfaces(Err(err.msg[3]), d, e)

\* The invocations of the call whose function threw or rejected, for nodes
\* other than the requested one.
FailedDeps ==
  {i \in 1..Len(calls) : calls[i].out.t = "error" /\ calls[i].key # op.keys[1]}

\* C16 (as claimed): when the function of a node d the requested id depends
\* on fails with E, the asynchronous get rejects, the function of the id is
\* not invoked, and the surfaced error names d and contains E.
C16_EveryFailureSurfaced ==
  (variant = "async" /\ op.name = "get") =>
    \A i \in FailedDeps :
      /\ Times(op.keys[1]) = 0
      /\ op.status # "fulfilled"
      /\ Quiescent => op.status = "rejected"
      /\ op.status = "rejected" => Surfaces(op.error, calls[i].key, calls[i].out)

\* C16 (amended): when the function of a node the requested id depends on
\* fails, the asynchronous get rejects, neither the function of the id nor
\* that of a node declaring the failed node is invoked, and the surfaced
\* error names one failed dependency, the one whose rejection reached the
\* dependent first, and contains the error of that dependency's function.
C16_FirstFailureSurfaced ==
  (variant = "async" /\ op.name = "get" /\ FailedDeps # {}) =>
    /\ Times(op.keys[1]) = 0
    /\ \A k \in Keys :
         (has(k) /\ \E i \in FailedDeps : calls[i].key \in Declared(k)) => Times(k) = 0
    /\ op.status # "fulfilled"
    /\ Quiescent => op.status = "rejected"
    /\ op.status = "rejected" =>
         \E i \in FailedDeps : Surfaces(op.error, calls[i].key, calls[i].out)

\* C16 witness: an asynchronous get rejected because the function of a
\* dependency of a dependency of the requested id failed.
C16_Witness ==
  /\ variant = "async" /\ op.name = "get" /\ op.status = "rejected"
  /\ \E i \in FailedDeps :
       /\ calls[i].key \notin Declared(op.keys[1])
       /\ Surfaces(op.error, calls[i].key, calls[i].out)

\* C17: when a node function throws during a synchronous get or getMany, at
\* any depth, the call throws that very error, unchanged and unwrapped.
C17_SyncErrorUnchanged ==
  (variant = "sync" /\ Holding) =>
    \A i \in 1..Len(calls) :
      calls[i].out.t = "error" =>
        /\ op.status = "rejected"
        /\ op.error = calls[i].out
        /\ op.error = UserError(calls[i].key)

\* C17 witness: a synchronous call failed with the error of a function two
\* levels below a requested id.
C17_Witness ==
  /\ variant = "sync" /\ Holding /\ op.status = "rejected"
  /\ \E i \in 1..Len(calls) :
       /\ calls[i].out.t = "error"
       /\ \E k \in Range(op.keys) :
            has(k) /\ \E d \in Declared(k) : calls[i].key \in Declared(d)

\* The nodes a call for the keys of the last call needs when it is given no
\* cache.
RequiredFresh == UNION {Required(op.keys[i], EmptyObj, MaxDepth) : i \in 1..Len(op.keys)}

C19_ParamsUnchanged ==
  Holding => \A i \in 1..Len(calls) : calls[i].params = op.params

\* C19 witness: an asynchronous call with a defined params value invoked a
\* node and a dependency of it.
C19_Witness ==
  /\ variant = "async" /\ Holding /\ op.params = Num(1)
  /\ \E i, j \in 1..Len(calls) : calls[j].key \in Declared(calls[i].key)

\* C20: has(id) is true exactly for the ids of the successful define calls;
\* a registered entry is never removed or replaced; the registry changes
\* only in a successful define, by the one new entry; get and getMany (and
\* everything a resolution does) leave it as it is.
C20_RegistryOnlyGrows ==
  [][/\ \A k \in Keys : has(k) => nodes'[k] = nodes[k]
     /\ (nodes' # nodes \/ order' # order) =>
          /\ op'.name = "define" /\ op'.error = NoErr /\ ~op'.wasDefined
          /\ order' = Append(order, op'.key)
          /\ \A k \in Keys \ {op'.key} : nodes'[k] = nodes[k]
     /\ (op'.name = "define" /\ op'.error = NoErr) => nodes'[op'.key] # NoNode
     /\ \A k \in Keys : nodes'[k] # NoNode <=> k \in Range(order')]_vars

\* C20 witness: a resolution call ended on a registry of three nodes.
C20_Witness ==
  /\ Holding /\ op.status # "pending"
  /\ \A k \in Keys : has(k)

\* C21 (as claimed): the map handed to a node function by the synchronous
\* engine has entries for the node's declared dependencies only; a node
\* without dependencies is handed an empty map.
C21_OnlyDeclaredHanded ==
  (variant = "sync" /\ Holding) =>
    \A i \in 1..Len(calls) :
      \A k \in Keys \ Declared(calls[i].key) : calls[i].handed[k] = ABSENT

\* C22: the asynchronous engine invokes a node function with the params of
\* the call and a map that has an entry for each declared dependency and for
\* no other key, each entry holding the value (not the promise) the
\* dependency's promise fulfilled with.
C22_AsyncHandedResolved ==
  (variant = "async" /\ Holding) =>
    \A i \in 1..Len(calls) :
      /\ calls[i].params = op.params
      /\ \A k \in Keys \ Declared(calls[i].key) : calls[i].handed[k] = ABSENT
      /\ \A k \in Declared(calls[i].key) :
           /\ cache[k].st = "fulfilled"
           /\ calls[i].handed[k] = cache[k].val
           /\ calls[i].handed[k].t \in {"number", "undefined"}

\* C22 witness: an asynchronous call invoked a node with a dependency while
\* the promise map held a fulfilled promise for a key the node does not
\* declare.
C22_Witness ==
  /\ variant = "async" /\ Holding
  /\ \E i \in 1..Len(calls) :
       /\ Declared(calls[i].key) # {}
       /\ \E k \in Keys \ Declared(calls[i].key) :
            cache[k] # ABSENT /\ cache[k].st = "fulfilled" /\ k # calls[i].key

\* The synchronous get run on the registry and the arguments of the last call.
SyncRun == get(op.keys[1], op.params, Start(op.seed), MaxDepth)

\* The keys of the node functions a log of invocations names.
Invoked(log) == {log[i].key : i \in 1..Len(log)}

\* C23 (as claimed): with node functions that return at once, a finished
\* asynchronous get has fulfilled exactly if the synchronous get on the same
\* registry and arguments returns, with the same value, and has invoked the
\* same set of node functions.
C23_VariantsEquivalent ==
  (variant = "async" /\ op.name = "get" /\ Quiescent /\ clock.now = 0) =>
    /\ op.status = "fulfilled" <=> SyncRun.err = NoErr
    /\ op.status = "fulfilled" => op.ret = SyncRun.ret
    /\ Invoked(calls) = Invoked(SyncRun.log)


\* What the asynchronous get(key, params, seed) yields when it is the only
\* call: a defined seed value as it is, else the function of key applied to
\* params and to the values of its declared dependencies; an error if the
\* key is unknown, a function throws or a dependency fails.
RECURSIVE Alone(_, _, _, _)
Alone(key, params, seed, fuel) ==
  IF IsDefined(seed[key]) THEN seed[key]
  ELSE IF ~has(key) THEN NotFound(key)
  ELSE IF fuel = 0 THEN RangeError
  ELSE LET ref == [k \in Keys |-> IF k \in Declared(key)
                                  THEN Alone(k, params, seed, fuel - 1) ELSE ABSENT]
       IN IF \E k \in Declared(key) : ref[k].t = "error"
          THEN Failed(key, RangeError)
          ELSE Apply(nodes[key].fn, key, params, ref, Declared(key))

\* The call with per-call state c went as it goes alone: its functions got
\* its own params and the values its own resolution gives their declared
\* dependencies, and it ended as it ends alone.
AsAlone(c) ==
  /\ \A i \in 1..Len(c.calls) :
       /\ c.calls[i].params = c.op.params
       /\ \A k \in Declared(c.calls[i].key) :
            /\ c.calls[i].handed[k] = c.cache[k].val
            /\ c.calls[i].handed[k] = Alone(k, c.op.params, c.op.seed, MaxDepth)
  /\ c.op.status = "fulfilled" =>
       c.op.ret = Alone(c.op.keys[1], c.op.params, c.op.seed, MaxDepth)
  /\ c.op.status = "rejected" =>
       Alone(c.op.keys[1], c.op.params, c.op.seed, MaxDepth).t = "error"

\* Both calls are in flight or over.
TwoCalls == variant = "async" /\ Holding /\ other.op.name = "get"

\* C24: two asynchronous resolution calls on the same graph, each with its
\* own params and results object, taken in any interleaving: the functions
\* of each call get that call's params, each call ends with the value (or
\* the failure) it produces alone, and no function is handed a value that
\* comes from the other call.
C24_CallsIndependent == TwoCalls => AsAlone(Current) /\ AsAlone(other)

\* Both calls have invoked functions, hold a pending promise for the same
\* key, and one of them was seeded with a value the other must compute.
C24_Witness ==
  /\ TwoCalls
  /\ calls # <<>> /\ other.calls # <<>>
  /\ \E k \in Keys : /\ cache[k] # ABSENT /\ cache[k].st = "pending"
                     /\ other.cache[k] # ABSENT /\ other.cache[k].st = "pending"
  /\ \E k \in Keys : /\ IsDefined(other.op.seed[k]) \/ IsDefined(op.seed[k])
                     /\ cache[k] # ABSENT /\ other.cache[k] # ABSENT
                     /\ cache[k] # other.cache[k]


\* The ids of the call that are not registered and have no entry in the
\* supplied results object.
Unknown == {k \in Range(op.keys) : ~has(k) /\ op.seed[k] = ABSENT}

\* The step is a call of get or getMany.
IsCall == ~Holding /\ Holding'

\* C25: an asynchronous get or getMany never throws at the call: the call
\* returns a promise (pending, or fulfilled with a seeded value); a request
\* for an unregistered id, directly or in a getMany list, is reported as the
\* rejection of that promise with the not-found error.
C25_NeverThrowsSynchronously ==
  /\ [][(variant = "async" /\ IsCall) =>
          (op'.status \in {"pending", "fulfilled"} /\ op'.error = NoErr)]_vars
  /\ []((variant = "async" /\ Holding /\ Quiescent /\ Unknown # {}) =>
          /\ op.status = "rejected"
          /\ IF op.name = "get" THEN op.error = NotFound(op.keys[1])
             ELSE \E k \in Unknown : op.error = Failed(k, NotFound(k)))

\* A getMany whose list holds a registered and an unregistered id has
\* rejected after functions were invoked.
C25_Witness ==
  /\ variant = "async" /\ op.name = "getMany" /\ op.status = "rejected"
  /\ Unknown # {} /\ \E k \in Range(op.keys) : has(k)
  /\ calls # <<>>


\* The cache of the synchronous call at step i: the results object as it was
\* when the i-th function was invoked, and as the call left it for the step
\* after the last invocation.
CacheAt(i) == IF i <= Len(calls) THEN calls[i].handed ELSE results

\* From step i on, key keeps the value v and its function is not invoked.
KeptFrom(i, key, v) ==
  \A j \in i..(Len(calls) + 1) :
    /\ CacheAt(j)[key] = v
    /\ j <= Len(calls) => calls[j].key # key

\* C26: in a synchronous call, a key that holds a defined value in the
\* results object, supplied by the caller or stored after its function
\* returned, keeps that value in every later step of the call, and its
\* function is not invoked in any later step.
C26_DefinedValueKept ==
  (variant = "sync" /\ Holding) =>
    \A k \in Keys :
      /\ IsDefined(op.seed[k]) => KeptFrom(1, k, op.seed[k])
      /\ \A i \in 1..Len(calls) :
           /\ IsDefined(CacheAt(i)[k]) => KeptFrom(i, k, CacheAt(i)[k])
           /\ (calls[i].key = k /\ calls[i].out.t # "error" /\ IsDefined(calls[i].out)) =>
                KeptFrom(i + 1, k, calls[i].out)

\* A call was given a value for one key and computed a defined value for
\* another, after which a further function was invoked.
C26_Witness ==
  /\ variant = "sync" /\ Holding
  /\ \E k \in Keys : IsDefined(op.seed[k]) /\ has(k)
                     /\ \E i \in 1..Len(calls) : k \in Declared(calls[i].key)
  /\ \E i \in 1..Len(calls) : /\ IsDefined(calls[i].out) /\ calls[i].out.t # "error"
                              /\ i < Len(calls)
                              /\ calls[i].key \in Declared(calls[i + 1].key)


\* The state of a node in the running call, read off the promise map.
NodeState(c, key) ==
  IF c[key] = ABSENT THEN "UNSEEN"
  ELSE IF c[key].st = "pending" THEN "IN_PROGRESS"
  ELSE IF c[key].st = "fulfilled" THEN "SETTLED"
  ELSE "FAILED"

\* C27: within one asynchronous call the state of every node only moves
\* forward: a node with a promise in the map keeps one, a fulfilled promise
\* keeps its value, a rejected promise keeps its error, and the function of
\* a node that failed or settled is not invoked again.
C27_StateOnlyForward ==
  [][(variant = "async" /\ Holding /\ Holding') =>
       \A k \in Keys :
         /\ NodeState(cache, k) # "UNSEEN" => NodeState(cache', k) # "UNSEEN"
         /\ NodeState(cache, k) \in {"SETTLED", "FAILED"} =>
              /\ cache'[k] = cache[k]
              /\ Times(k)' = Times(k)
         /\ NodeState(cache, k) = "UNSEEN" =>
              NodeState(cache', k) \in {"UNSEEN", "IN_PROGRESS"}]_vars

\* One call in which a node failed, another settled and a third is still in
\* progress.
C27_Witness ==
  /\ variant = "async" /\ Holding
  /\ \E k \in Keys : NodeState(cache, k) = "FAILED" /\ Times(k) = 1
  /\ \E k \in Keys : NodeState(cache, k) = "SETTLED" /\ Times(k) = 1
  /\ \E k \in Keys : NodeState(cache, k) = "IN_PROGRESS"


\* The lists of ids the running call resolves together: the dependency list
\* of every node it started and the list given to getMany.
Lists ==
  {nodes[o].deps : o \in {m \in Keys : Started(m)}} \cup
  (IF op.name = "getMany" THEN {op.keys} ELSE {})

\* Every id of every list, and a registered id requested by get, has a
\* promise in the map.
Initiated ==
  /\ \A L \in Lists : \A i \in 1..Len(L) : NodeState(cache, L[i]) # "UNSEEN"
  /\ (op.name = "get" /\ has(op.keys[1]) /\ op.status = "pending") =>
       NodeState(cache, op.keys[1]) # "UNSEEN"

\* C28: an asynchronous call stores the promise of every node it starts
\* before it suspends, and starts all ids of one dependency list (or getMany
\* list) together: from the first state of the call on every id of every
\* list has a promise in the map, and when the function of a node is
\* invoked every sibling in a list with it has a pending or settled promise.
C28_InitiatedTogether ==
  /\ []((variant = "async" /\ Holding) => Initiated)
  /\ [][(variant = "async" /\ Holding /\ Len(calls') > Len(calls)) =>
          \A L \in Lists :
            calls'[Len(calls')].key \in Range(L) =>
              \A s \in Range(L) : NodeState(cache, s) # "UNSEEN"]_vars

\* The function of one of two different dependencies of a node was invoked
\* while the other, not yet invoked, is in progress.
C28_Witness ==
  /\ variant = "async" /\ Holding
  /\ \E o \in Keys : /\ Started(o) /\ Len(nodes[o].deps) = 2
                     /\ LET x == nodes[o].deps[1]
                            y == nodes[o].deps[2]
                        IN /\ x # y
                           /\ {Times(x), Times(y)} = {0, 1}
                           /\ NodeState(cache, x) = "IN_PROGRESS"
                           /\ NodeState(cache, y) = "IN_PROGRESS"


\* The depth-first post-order of the graph for a list of ids: ids in list
\* order, the dependencies of a node in declared order before the node, ids
\* already seen (held by the results object, or visited before) skipped. The
\* walk stops at an unregistered id and after a node whose function throws.
RECURSIVE PostOrder(_, _, _)
PostOrder(keys, st, fuel) ==
  IF keys = <<>> \/ st.stop \/ fuel = 0 THEN st
  ELSE LET k == Head(keys)
       IN IF k \in st.seen THEN PostOrder(Tail(keys), st, fuel)
          ELSE IF ~has(k) THEN [st EXCEPT !.stop = TRUE]
          ELSE LET st1 == PostOrder(nodes[k].deps, st, fuel - 1)
                   st2 == [st1 EXCEPT !.order = Append(@, k), !.seen = @ \cup {k}]
               IN IF st1.stop THEN st1
                  ELSE IF nodes[k].fn = "throw" THEN [st2 EXCEPT !.stop = TRUE]
                  ELSE PostOrder(Tail(keys), st2, fuel)

\* The ids whose functions the call invoked, in order of invocation.
InvokedOrder == [i \in 1..Len(calls) |-> calls[i].key]

\* C29 (as claimed): a synchronous getMany invokes the node functions in the
\* depth-first post-order of the graph over the requested ids, skipping the
\* ids the results object holds and the nodes computed earlier in the call.
C29_DepthFirstPostOrder ==
  (variant = "sync" /\ op.name = "getMany") =>
    InvokedOrder =
      PostOrder(op.keys,
                [seen |-> {k \in Keys : op.seed[k] # ABSENT}, order |-> <<>>, stop |-> FALSE],
                MaxDepth).order


\* Node o declares the dependencies [x, y], two different registered nodes
\* without dependencies.
DeclaresPair(o, x, y) ==
  /\ has(o) /\ has(x) /\ has(y) /\ x # y
  /\ nodes[o].deps = <<x, y>>
  /\ nodes[x].deps = <<>> /\ nodes[y].deps = <<>>

\* The position of the invocation of key in the call.
Pos(key) == CHOOSE i \in 1..Len(calls) : calls[i].key = key

\* The first requested id that needs key (0 if none does).
FirstNeeding(key) ==
  LET need == {i \in 1..Len(op.keys) : key \in Required(op.keys[i], op.seed, MaxDepth)}
  IN IF need = {} THEN 0 ELSE CHOOSE i \in need : \A j \in need : i <= j

\* In the running call the function of x was invoked before that of y.
InvokedBefore(x, y) == Times(y) = 1 => (Times(x) = 1 /\ Pos(x) < Pos(y))

\* C30 (as claimed): whenever an asynchronous call resolves a node that
\* declares two independent dependency-free nodes in the order [first,
\* second], neither supplied by the caller, the function of first is
\* invoked before the function of second.
C30_FirstBeforeSecond ==
  (variant = "async" /\ Holding) =>
    \A o, x, y \in Keys :
      (DeclaresPair(o, x, y) /\ Started(o) /\ op.seed[x] = ABSENT /\ op.seed[y] = ABSENT) =>
        InvokedBefore(x, y)

\* C30 (amended): the same, in a call where second is not needed by an id
\* requested before the first id that needs the declaring node, so that the
\* node's dependency list is what starts second.
C30_FirstBeforeSecondWhenStartedByList ==
  (variant = "async" /\ Holding) =>
    \A o, x, y \in Keys :
      ( /\ DeclaresPair(o, x, y) /\ Started(o)
        /\ op.seed[x] = ABSENT /\ op.seed[y] = ABSENT
        /\ FirstNeeding(o) <= FirstNeeding(y) ) =>
        InvokedBefore(x, y)

\* get of a node declaring [first, second] has fulfilled after both
\* functions were invoked, first and then second.
C30_Witness ==
  /\ variant = "async" /\ op.name = "get" /\ op.status = "fulfilled"
  /\ \E x, y \in Keys :
       /\ DeclaresPair(op.keys[1], x, y) /\ Started(op.keys[1])
       /\ Times(x) = 1 /\ Times(y) = 1 /\ Pos(x) < Pos(y)


\* The length of the longest dependency chain that ends in key, the depth of
\* the recursion a request for key makes.
RECURSIVE Height(_, _)
Height(key, fuel) ==
  IF ~has(key) THEN 0
  ELSE IF fuel = 0 THEN 1
  ELSE LET hs == {Height(nodes[key].deps[i], fuel - 1) : i \in 1..Len(nodes[key].deps)}
       IN 1 + (IF hs = {} THEN 0 ELSE CHOOSE h \in hs : \A g \in hs : g <= h)

\* The call is over: it returned or threw, its promise fulfilled or rejected.
Over == Holding /\ op.status \in {"fulfilled", "rejected"}

\* C31: every resolution ends. Whatever define accepted, the recursion for a
\* key is no deeper than the number of registered nodes and never exhausts
\* the stack; a synchronous call has returned or thrown when it is back; an
\* asynchronous call with nothing left in flight has settled, and a pending
\* one settles eventually.
C31_ResolutionTerminates ==
  /\ [](/\ \A k \in Keys : Height(k, MaxDepth) <= Len(order)
        /\ Holding => (op.error # RangeError /\ (variant = "sync" => Over))
        /\ \A i \in 1..Len(queue) : queue[i].out # RangeError
        /\ (Holding /\ Quiescent) => Over)
  /\ (Holding /\ op.status = "pending") ~> Over

\* A call for the last node of a chain of three has ended after a timer
\* fired.
C31_Witness ==
  /\ variant = "async" /\ Over /\ clock.now > 0
  /\ Len(op.keys) = 1 /\ Height(op.keys[1], MaxDepth) = 3
  /\ Len(calls) = 3


\* The function of the only requested id was invoked and threw (or its
\* promise rejected), and the call is over.
OwnFailure ==
  /\ variant = "async" /\ Holding /\ Quiescent
  /\ Len(op.keys) = 1
  /\ \E i \in 1..Len(calls) : calls[i].key = op.keys[1] /\ calls[i].out.t = "error"

\* C32 (as claimed): when the function of the requested node itself fails
\* with error E, the asynchronous call rejects with E unchanged, for get(id)
\* and for getMany([id]) alike.
C32_OwnErrorUnchanged ==
  OwnFailure => (op.status = "rejected" /\ op.error = UserError(op.keys[1]))


\* The invocations of the call whose function returned.
Completed == {i \in 1..Len(calls) : calls[i].out.t # "error"}

\* C33: after a synchronous get or getMany that failed, the results object
\* holds the returned value of every node whose function completed and is
\* as supplied everywhere else: the failing node, its dependents and the ids
\* not yet processed got no entry. The function that threw is the last one
\* invoked.
C33_PartialFailure ==
  (variant = "sync" /\ Holding /\ op.status = "rejected") =>
    /\ \A i \in 1..Len(calls) - 1 : i \in Completed
    /\ \A k \in Keys :
         IF \E i \in Completed : calls[i].key = k
         THEN \A i \in Completed : calls[i].key = k => results[k] = calls[i].out
         ELSE results[k] = op.seed[k]
    /\ op.error.msg[1] = "user" =>
         /\ calls # <<>> /\ Len(calls) \notin Completed
         /\ op.error = calls[Len(calls)].out

\* A call given an empty results object failed in the second dependency of
\* a requested node: the first dependency has its value, the second and the
\* requested node have no entry.
C33_Witness ==
  /\ variant = "sync" /\ Holding /\ op.status = "rejected" /\ op.seed = EmptyObj
  /\ \E k \in Range(op.keys) :
       /\ has(k) /\ Len(nodes[k].deps) = 2 /\ results[k] = ABSENT
       /\ IsDefined(results[nodes[k].deps[1]])
       /\ results[nodes[k].deps[2]] = ABSENT
       /\ calls[Len(calls)].key = nodes[k].deps[2]


\* The requested ids (or dependencies) in keys whose promise has rejected.
RejectedIn(c, keys) == {k \in Range(keys) : c[k] # ABSENT /\ c[k].st = "rejected"}

\* The rejections of the getMany call that wait in the microtask queue.
RootRejections == {i \in 1..Len(queue) : queue[i].node = ROOT /\ queue[i].out.t = "error"}

\* C34: the promise of getMany rejects with the first rejection among the
\* requested ids, and a node rejects when one of its dependencies did, but
\* nothing in flight is cancelled: when the call has nothing left to run,
\* every started node has settled, the function of every started node whose
\* dependencies all fulfilled was invoked, and only the functions of nodes
\* with a rejected dependency were not.
C34_FirstRejectionNoCancel ==
  /\ []((variant = "async" /\ Holding /\ Quiescent) =>
          \A m \in Keys :
            Started(m) =>
              /\ NodeState(cache, m) \in {"SETTLED", "FAILED"}
              /\ Times(m) = (IF RejectedIn(cache, nodes[m].deps) = {} THEN 1 ELSE 0)
              /\ RejectedIn(cache, nodes[m].deps) # {} => NodeState(cache, m) = "FAILED")
  /\ [][(variant = "async" /\ Holding /\ Holding' /\ op.name = "getMany") =>
          /\ \A k \in Range(op.keys) :
               ( /\ RejectedIn(cache, op.keys) = {}
                 /\ k \in RejectedIn(cache', op.keys) ) =>
                 \E i \in RootRejections' : queue'[i].out = cache'[k].val
          /\ RejectedIn(cache, op.keys) # {} => Cardinality(RootRejections') <= 1
          /\ (op.status = "pending" /\ op'.status = "rejected") =>
               /\ RootRejections = {1}
               /\ op'.error = queue[1].out]_vars

\* getMany has rejected while the function of a sibling of the failed id is
\* still running.
C34_Witness ==
  /\ variant = "async" /\ op.name = "getMany" /\ op.status = "rejected"
  /\ running # {}
  /\ \E k \in Range(op.keys) : NodeState(cache, k) = "FAILED" /\ Times(k) = 1
  /\ \E k \in Range(op.keys) : NodeState(cache, k) = "IN_PROGRESS" /\ Times(k) = 1


\* C35 (as claimed): get of a registered id with no results argument, once
\* over, has invoked the function of the id once and returned what the
\* function returned, whatever the identifier is.
C35_FreshCacheMisses ==
  (Over /\ op.name = "get" /\ op.seed = FreshObj /\ has(op.keys[1])) =>
    /\ Times(op.keys[1]) = 1
    /\ op.status = "fulfilled" => op.ret = calls[1].out


\* The error define(key, fn, dependencies) of the instance throws in the
\* current registry (NoErr if it registers the node).
DefineError(key, dependencies) ==
  IF variant = "sync" THEN define(key, "sum", dependencies).error
  ELSE defineAsync(key, "sum", dependencies).error

\* The positions of the unregistered ids in a dependency list.
MissingAt(dependencies) ==
  IF dependencies = NoDeps THEN {}
  ELSE {i \in 1..Len(dependencies) : ~has(dependencies[i])}

\* C36: define checks in a fixed order. In every registry, for every id and
\* dependency list: a registered id gives the duplicate error, missing
\* dependencies or not; for a new id with missing dependencies the error
\* names the missing one that comes first in the list. Every define step
\* taken ended that way.
C36_DefineCheckOrder ==
  /\ [](\A key \in Keys, dependencies \in DepLists :
          LET miss == MissingAt(dependencies)
          IN DefineError(key, dependencies) =
               IF has(key) THEN AlreadyDefined(key)
               ELSE IF miss = {} THEN NoErr
               ELSE NotFound(dependencies[CHOOSE i \in miss : \A j \in miss : i <= j]))
  /\ [][op'.name = "define" =>
          /\ op'.wasDefined => op'.error = AlreadyDefined(op'.key)
          /\ (~op'.wasDefined /\ op'.missing # "none") =>
               op'.error = NotFound(op'.missing)]_vars

\* define of a registered id with a missing dependency, on a registry where
\* two ids are missing, failed with the duplicate error.
C36_Witness ==
  /\ op.name = "define" /\ op.wasDefined /\ op.missing # "none"
  /\ op.error = AlreadyDefined(op.key)
  /\ Cardinality({k \in Keys : ~has(k)}) = 2

====
